---- MODULE Spec2Model ----
(***************************************************************************)
(* Model of homework.py: the workout records (Training and its variants    *)
(* Running, SportsWalking, Swimming), the report InfoMessage, the dispatch *)
(* read_package, the function main and the driver loop of the __main__     *)
(* block.                                                                  *)
(*                                                                         *)
(* Numbers.  Python computes over int and float.  The model computes the   *)
(* same expressions, in the same order, over exact fractions n/d whose     *)
(* numerator and denominator are naturals of unbounded size (sequences of  *)
(* base-Base limbs, least significant first, <<>> being zero).  A float    *)
(* result differs from the exact one by rounding in the 16th significant  *)
(* digit, which changes a 3-decimal rendering only next to a tie or for a  *)
(* number of more than 12 integer digits.                                  *)
(*                                                                         *)
(* Exceptions.  An operation that raises yields a value with tag "exc"     *)
(* naming the Python exception; an exception raised in a subexpression is  *)
(* the value of the whole expression (it propagates).                      *)
(***************************************************************************)
EXTENDS Integers, Sequences, FiniteSets, TLC

\* ------------------------------------------------------------ naturals
\* Limb base of the unbounded naturals.
Base == 10 ^ 4

RECURSIVE BNorm(_)
\* Drop the most significant limbs that are zero.
BNorm(a) ==
    IF a = <<>> THEN <<>>
    ELSE IF a[Len(a)] = 0 THEN BNorm(SubSeq(a, 1, Len(a) - 1))
    ELSE a

RECURSIVE BFromNat(_)
BFromNat(k) ==
    IF k = 0 THEN <<>> ELSE <<k % Base>> \o BFromNat(k \div Base)

RECURSIVE BAddC(_, _, _)
BAddC(a, b, c) ==
    IF a = <<>> /\ b = <<>>
    THEN (IF c = 0 THEN <<>> ELSE <<c>>)
    ELSE LET x == (IF a = <<>> THEN 0 ELSE Head(a))
                  + (IF b = <<>> THEN 0 ELSE Head(b)) + c
         IN  <<x % Base>> \o BAddC(IF a = <<>> THEN <<>> ELSE Tail(a),
                                   IF b = <<>> THEN <<>> ELSE Tail(b),
                                   x \div Base)

BAdd(a, b) == BAddC(a, b, 0)

RECURSIVE BSubC(_, _, _)
\* a - b - c for a >= b + c.
BSubC(a, b, c) ==
    IF a = <<>> THEN <<>>
    ELSE LET x == Head(a) - (IF b = <<>> THEN 0 ELSE Head(b)) - c
         IN  <<(x + Base) % Base>>
             \o BSubC(Tail(a), IF b = <<>> THEN <<>> ELSE Tail(b),
                      IF x < 0 THEN 1 ELSE 0)

BSub(a, b) == BNorm(BSubC(a, b, 0))

RECURSIVE BMulSmallC(_, _, _)
\* a * k + c for 0 <= k < Base.
BMulSmallC(a, k, c) ==
    IF a = <<>> THEN (IF c = 0 THEN <<>> ELSE <<c>>)
    ELSE LET x == Head(a) * k + c
         IN  <<x % Base>> \o BMulSmallC(Tail(a), k, x \div Base)

BMulSmall(a, k) == BNorm(BMulSmallC(a, k, 0))

RECURSIVE BMul(_, _)
BMul(a, b) ==
    IF a = <<>> \/ b = <<>> THEN <<>>
    ELSE LET rest == BMul(a, Tail(b))
         IN  IF rest = <<>> THEN BMulSmall(a, Head(b))
             ELSE BAdd(BMulSmall(a, Head(b)), <<0>> \o rest)

RECURSIVE BCmpFrom(_, _, _)
BCmpFrom(a, b, i) ==
    IF i = 0 THEN 0
    ELSE IF a[i] < b[i] THEN -1
    ELSE IF a[i] > b[i] THEN 1
    ELSE BCmpFrom(a, b, i - 1)

\* -1, 0 or 1 as a < b, a = b or a > b.
BCmp(a, b) ==
    IF Len(a) < Len(b) THEN -1
    ELSE IF Len(a) > Len(b) THEN 1
    ELSE BCmpFrom(a, b, Len(a))

RECURSIVE QLimb(_, _, _, _)
\* The largest c in lo..hi with c * d <= r.
QLimb(r, d, lo, hi) ==
    IF lo = hi THEN lo
    ELSE LET mid == (lo + hi + 1) \div 2
         IN  IF BCmp(BMulSmall(d, mid), r) <= 0
             THEN QLimb(r, d, mid, hi)
             ELSE QLimb(r, d, lo, mid - 1)

\* The quotient digit c of rem by d joined to the quotient q of the limbs
\* above it.
BDivDigit(rem, d, q, c) ==
    [q |-> BNorm(<<c>> \o q), r |-> BSub(rem, BMulSmall(d, c))]

\* One step of the long division: the limb h is brought down to the
\* result hi of the limbs above it.
BDivLimb(h, hi, d) ==
    IF hi.r = <<>> /\ h = 0
    THEN [q |-> IF hi.q = <<>> THEN <<>> ELSE <<0>> \o hi.q, r |-> <<>>]
    ELSE BDivDigit(<<h>> \o hi.r, d, hi.q,
                   QLimb(<<h>> \o hi.r, d, 0, Base - 1))

RECURSIVE BDivMod(_, _)
\* Quotient and remainder of a by d, d > 0: long division, from the most
\* significant limb of a down.
BDivMod(a, d) ==
    IF a = <<>> THEN [q |-> <<>>, r |-> <<>>]
    ELSE BDivLimb(Head(a), BDivMod(Tail(a), d), d)

\* ------------------------------------------------------------- values
\* The number of least significant limbs of a that are zero.
LowZeros(a) ==
    CHOOSE k \in 0..Len(a) :
        /\ \A i \in 1..k : a[i] = 0
        /\ k = Len(a) \/ a[k + 1] # 0

Min(a, b) == IF a < b THEN a ELSE b

\* The number n/d with the z low limbs, zero in both, dropped from both.
Cancelled(neg, n, d, z) ==
    [tag |-> "num", neg |-> neg,
     n |-> SubSeq(n, z + 1, Len(n)), d |-> SubSeq(d, z + 1, Len(d)),
     exc |-> "", arg |-> ""]

\* A Python value: a number n/d (negative when neg), None, or a raised
\* exception exc with its argument arg.  A number is kept with the powers
\* of Base common to n and d cancelled, and zero as 0/1.
Num(neg, n, d) ==
    IF n = <<>>
    THEN [tag |-> "num", neg |-> FALSE, n |-> <<>>, d |-> <<1>>,
          exc |-> "", arg |-> ""]
    ELSE Cancelled(neg, n, d, Min(LowZeros(n), LowZeros(d)))

None == [tag |-> "None", neg |-> FALSE, n |-> <<>>, d |-> <<1>>,
         exc |-> "", arg |-> ""]

Raise(e, a) == [tag |-> "exc", neg |-> FALSE, n |-> <<>>, d |-> <<1>>,
                exc |-> e, arg |-> a]

IsExc(x) == x.tag = "exc"

IsNum(x) == x.tag = "num"

\* The Python int literal k, and the float literal written as the decimal
\* fraction k / den (0.65 is PyFloat(65, 100)).
PyInt(k) == IF k < 0 THEN Num(TRUE, BFromNat(-k), <<1>>)
            ELSE Num(FALSE, BFromNat(k), <<1>>)

PyFloat(k, den) == Num(FALSE, BFromNat(k), BFromNat(den))

\* ---------------------------------------------------------- arithmetic
RMul(x, y) == Num(x.neg # y.neg, BMul(x.n, y.n), BMul(x.d, y.d))

\* a/d + b/d for the signed numerators a (negative when na) and b
\* (negative when nb).
RAddSigned(na, a, nb, b, d) ==
    IF na = nb THEN Num(na, BAdd(a, b), d)
    ELSE IF BCmp(a, b) >= 0 THEN Num(na, BSub(a, b), d)
    ELSE Num(nb, BSub(b, a), d)

RAdd(x, y) ==
    RAddSigned(x.neg, BMul(x.n, y.d), y.neg, BMul(y.n, x.d), BMul(x.d, y.d))

\* Python's true division: a zero divisor raises ZeroDivisionError, for
\* int and float operands alike.
RDiv(x, y) ==
    IF y.n = <<>> THEN Raise("ZeroDivisionError", "division by zero")
    ELSE Num(x.neg # y.neg, BMul(x.n, y.d), BMul(x.d, y.n))

\* A binary operation on Python values: an exception in an operand
\* propagates, an operand None raises TypeError.
Mul(x, y) ==
    IF IsExc(x) THEN x ELSE IF IsExc(y) THEN y
    ELSE IF ~IsNum(x) \/ ~IsNum(y) THEN Raise("TypeError", "unsupported operand")
    ELSE RMul(x, y)

Add(x, y) ==
    IF IsExc(x) THEN x ELSE IF IsExc(y) THEN y
    ELSE IF ~IsNum(x) \/ ~IsNum(y) THEN Raise("TypeError", "unsupported operand")
    ELSE RAdd(x, y)

Div(x, y) ==
    IF IsExc(x) THEN x ELSE IF IsExc(y) THEN y
    ELSE IF ~IsNum(x) \/ ~IsNum(y) THEN Raise("TypeError", "unsupported operand")
    ELSE RDiv(x, y)

\* x ** k for the int exponent k >= 1.
RECURSIVE Pow(_, _)
Pow(x, k) == IF k = 1 THEN x ELSE Mul(x, Pow(x, k - 1))

\* Numeric comparisons of two numbers.
NumEq(x, y) ==
    /\ IsNum(x) /\ IsNum(y)
    /\ x.neg = y.neg
    /\ BMul(x.n, y.d) = BMul(y.n, x.d)

NonNegative(x) == IsNum(x) /\ ~x.neg

Positive(x) == IsNum(x) /\ ~x.neg /\ x.n # <<>>

\* ---------------------------------------------------------- formatting
\* The decimal digits of a natural, most significant first, four per limb.
AllDigits(a) ==
    [i \in 1..(4 * Len(a)) |->
        LET l == a[Len(a) - ((i - 1) \div 4)]
        IN  CASE i % 4 = 1 -> l \div 1000
              [] i % 4 = 2 -> (l \div 100) % 10
              [] i % 4 = 3 -> (l \div 10) % 10
              [] OTHER -> l % 10]

\* Drop leading zeros, keeping at least keep digits.
Strip(ds, keep) ==
    LET first == CHOOSE i \in 1..Len(ds) :
                    /\ i > Len(ds) - keep \/ ds[i] # 0
                    /\ \A j \in 1..(i - 1) : j <= Len(ds) - keep /\ ds[j] = 0
    IN  SubSeq(ds, first, Len(ds))

RECURSIVE Join(_)
Join(ds) == IF ds = <<>> THEN "" ELSE ToString(Head(ds)) \o Join(Tail(ds))

\* The digits ds with a sign and a point before the last three.
Point(neg, ds) ==
    (IF neg THEN "-" ELSE "")
    \o Join(SubSeq(ds, 1, Len(ds) - 3)) \o "."
    \o Join(SubSeq(ds, Len(ds) - 2, Len(ds)))

\* The text of q / 1000 with three decimals, q a natural.
Render(neg, q) ==
    Point(neg, Strip(<<0, 0, 0, 0>> \o AllDigits(q), 4))

\* Format3f cutting the digits after the third instead of rounding.
Format3f_truncate(x) ==
    Render(x.neg, BDivMod(BMulSmall(x.n, 1000), x.d).q)

\* The remainder r of a division rounds the quotient q up: r is more than
\* half of the divisor (c = 1), or half of it (c = 0) and q is odd.
RoundsUp(q, r, c) ==
    r # <<>> /\ (c > 0 \/ (c = 0 /\ q # <<>> /\ Head(q) % 2 = 1))

\* The text of (qr.q + qr.r / d) / 1000 rounded to three decimals.
Rounded(neg, qr, d) ==
    IF RoundsUp(qr.q, qr.r, BCmp(BMulSmall(qr.r, 2), d))
    THEN Render(neg, BAdd(qr.q, <<1>>))
    ELSE Render(neg, qr.q)

\* format(x, '.3f') of a number: the number rounded to 3 decimals (to
\* nearest, ties to even), with a leading "-" for a negative number.
Format3f(x) == Rounded(x.neg, BDivMod(BMulSmall(x.n, 1000), x.d), x.d)

\* ------------------------------------------------------------ classes
\* An attribute an object does not have.
Absent == [tag |-> "absent"]

\* Class constants of Training, inherited by the variants.
M_IN_KM == 1000

TIME_IN_MINUTE == 60

\* LEN_STEP without Swimming's override.
LEN_STEP_inherited(cls) == PyFloat(65, 100)

\* LEN_STEP as the class cls sees it: Swimming overrides Training's.
LEN_STEP(cls) == IF cls = "Swimming" THEN PyFloat(138, 100) ELSE PyFloat(65, 100)

\* Class constants of Running.
CALORIES_MEAN_SPEED_MULTIPLIER == 18

ALORIES_MEAN_SPEED_SHIFT == PyFloat(179, 100)

\* Class constants of SportsWalking.
WLK_COEFF_CALORIE_1 == PyFloat(35, 1000)

WLK_COEFF_CALORIE_2 == 2

WLK_COEFF_CALORIE_3 == PyFloat(29, 1000)

COEFF_M_IN_S == PyFloat(278, 1000)

CONST_M_IN_S == 100

\* Class constants of Swimming.
SWM_COEFF_CALORIE_1 == PyFloat(11, 10)

SWM_COEFF_CALORIE_2 == 2

Classes == {"Training", "Running", "SportsWalking", "Swimming"}

\* The positional parameters of cls.__init__, after self.
Params(cls) ==
    CASE cls = "SportsWalking" -> <<"action", "duration", "weight", "height">>
      [] cls = "Swimming" ->
            <<"action", "duration", "weight", "length_pool", "count_pool">>
      [] OTHER -> <<"action", "duration", "weight">>

\* Arg with an __init__ that passes weight and duration to the base
\* constructor in each other's place.
Arg_swapped(cls, args, name) ==
    LET stored == CASE name = "duration" -> "weight"
                    [] name = "weight" -> "duration"
                    [] OTHER -> name
    IN  IF \E i \in 1..Len(Params(cls)) : Params(cls)[i] = stored
        THEN args[CHOOSE i \in 1..Len(Params(cls)) : Params(cls)[i] = stored]
        ELSE Absent

\* The value bound to parameter name in the call cls(*args).
Arg(cls, args, name) ==
    IF \E i \in 1..Len(Params(cls)) : Params(cls)[i] = name
    THEN args[CHOOSE i \in 1..Len(Params(cls)) : Params(cls)[i] = name]
    ELSE Absent

\* Construct with an __init__ that accepts and drops surplus arguments.
Construct_lenient(cls, args) ==
    IF Len(args) < Len(Params(cls))
    THEN Raise("TypeError", cls \o ".__init__() wrong number of positional arguments")
    ELSE [tag |-> "object", cls |-> cls,
          action |-> Arg(cls, args, "action"),
          duration |-> Arg(cls, args, "duration"),
          weight |-> Arg(cls, args, "weight"),
          height |-> Arg(cls, args, "height"),
          length_pool |-> Arg(cls, args, "length_pool"),
          count_pool |-> Arg(cls, args, "count_pool")]

\* cls(*args): a call with another number of arguments than __init__ has
\* parameters raises TypeError; otherwise __init__ stores every parameter
\* in the attribute of its name.
Construct(cls, args) ==
    IF Len(args) # Len(Params(cls))
    THEN Raise("TypeError", cls \o ".__init__() wrong number of positional arguments")
    ELSE [tag |-> "object", cls |-> cls,
          action |-> Arg(cls, args, "action"),
          duration |-> Arg(cls, args, "duration"),
          weight |-> Arg(cls, args, "weight"),
          height |-> Arg(cls, args, "height"),
          length_pool |-> Arg(cls, args, "length_pool"),
          count_pool |-> Arg(cls, args, "count_pool")]

IsObject(x) == x.tag = "object"

\* ------------------------------------------------------------ methods
\* Training.get_distance, inherited by every variant.
get_distance(self) ==
    Div(Mul(self.action, LEN_STEP(self.cls)), PyInt(M_IN_KM))

Training_get_mean_speed(self) == Div(get_distance(self), self.duration)

\* Swimming without its own get_mean_speed.
Swimming_get_mean_speed_inherited(self) ==
    Div(get_distance(self), self.duration)

Swimming_get_mean_speed(self) ==
    Div(Div(Mul(self.length_pool, self.count_pool), PyInt(M_IN_KM)),
        self.duration)

\* self.get_mean_speed(): Swimming's override, else Training's.
get_mean_speed(self) ==
    IF self.cls = "Swimming" THEN Swimming_get_mean_speed(self)
    ELSE Training_get_mean_speed(self)

\* Training.get_spent_calories: the body is pass, the call returns None.
Training_get_spent_calories(self) == None

\* Running.get_spent_calories with the shift added to the speed before
\* the multiplication.
Running_get_spent_calories_precedence(self) ==
    Mul(Mul(Div(Mul(Mul(PyInt(CALORIES_MEAN_SPEED_MULTIPLIER),
                        Add(get_mean_speed(self), ALORIES_MEAN_SPEED_SHIFT)),
                    self.weight),
                PyInt(M_IN_KM)),
            self.duration),
        PyInt(TIME_IN_MINUTE))

Running_get_spent_calories(self) ==
    Mul(Mul(Div(Mul(Add(Mul(PyInt(CALORIES_MEAN_SPEED_MULTIPLIER),
                            get_mean_speed(self)),
                        ALORIES_MEAN_SPEED_SHIFT),
                    self.weight),
                PyInt(M_IN_KM)),
            self.duration),
        PyInt(TIME_IN_MINUTE))

SportsWalking_get_spent_calories(self) ==
    LET speed_m_in_s_power_2 ==
            Pow(Mul(get_mean_speed(self), COEFF_M_IN_S), WLK_COEFF_CALORIE_2)
        h_in_m == Mul(self.duration, PyInt(TIME_IN_MINUTE))
        height_in_m == Div(self.height, PyInt(CONST_M_IN_S))
    IN  Mul(Add(Mul(WLK_COEFF_CALORIE_1, self.weight),
                Mul(Mul(Div(speed_m_in_s_power_2, height_in_m),
                        WLK_COEFF_CALORIE_3),
                    self.weight)),
            h_in_m)

Swimming_get_spent_calories(self) ==
    Mul(Mul(Mul(Add(get_mean_speed(self), SWM_COEFF_CALORIE_1),
                PyInt(SWM_COEFF_CALORIE_2)),
            self.weight),
        self.duration)

\* self.get_spent_calories(): the override of self's class.
get_spent_calories(self) ==
    CASE self.cls = "Running" -> Running_get_spent_calories(self)
      [] self.cls = "SportsWalking" -> SportsWalking_get_spent_calories(self)
      [] self.cls = "Swimming" -> Swimming_get_spent_calories(self)
      [] OTHER -> Training_get_spent_calories(self)

\* InfoMessage(training_type, duration, distance, speed, calories).
InfoMessage(training_type, duration, distance, speed, calories) ==
    [tag |-> "InfoMessage", training_type |-> training_type,
     duration |-> duration, distance |-> distance, speed |-> speed,
     calories |-> calories]

IsInfo(x) == x.tag = "InfoMessage"

\* The call InfoMessage(...) with its arguments evaluated: the first that
\* raised is the outcome.
Called(training_type, duration, distance, speed, calories) ==
    IF IsExc(distance) THEN distance
    ELSE IF IsExc(speed) THEN speed
    ELSE IF IsExc(calories) THEN calories
    ELSE InfoMessage(training_type, duration, distance, speed, calories)

\* Training.show_training_info: the arguments are evaluated left to right,
\* the first that raises ends the call.
show_training_info(self) ==
    Called(self.cls, self.duration, get_distance(self), get_mean_speed(self),
           get_spent_calories(self))

\* InfoMessage.get_message.  The Russian labels of the template are
\* transliterated (strings here are ASCII); a field that is None has no
\* '.3f' format and raises TypeError.
get_message(self) ==
    IF \E v \in {self.duration, self.distance, self.speed, self.calories} :
           ~IsNum(v)
    THEN Raise("TypeError", "unsupported format string passed to NoneType.__format__")
    ELSE [tag |-> "str",
          text |-> "Tip trenirovki: " \o self.training_type \o "; "
                   \o "Dlitel'nost': " \o Format3f(self.duration) \o " ch.; "
                   \o "Distantsiya: " \o Format3f(self.distance) \o " km; "
                   \o "Sr. skorost': " \o Format3f(self.speed) \o " km/ch; "
                   \o "Potracheno kkal: " \o Format3f(self.calories) \o "."]

\* The mapping dict_training of read_package.
dict_training ==
    [c \in {"SWM", "RUN", "WLK"} |->
        CASE c = "SWM" -> "Swimming"
          [] c = "RUN" -> "Running"
          [] c = "WLK" -> "SportsWalking"]

\* read_package looking the code up with a default class.
read_package_default(workout_type, data) ==
    IF workout_type \notin DOMAIN dict_training
    THEN Construct("Running", data)
    ELSE Construct(dict_training[workout_type], data)

\* read_package: a code that is no key of dict_training raises KeyError
\* with the code as its argument, before any constructor is called.
read_package(workout_type, data) ==
    IF workout_type \notin DOMAIN dict_training
    THEN Raise("KeyError", workout_type)
    ELSE Construct(dict_training[workout_type], data)

\* -------------------------------------------------------------- state
VARIABLES
    packages,      \* the list the driver loop iterates
    idx,           \* position of the loop in packages
    workout_type,  \* the code of the current entry or call
    data,          \* the parameter list of the current entry or call
    training,      \* the record built last, None before the first
    info,          \* the InfoMessage built last, None before the first
    result,        \* what the getter called last returned
    out,           \* the lines printed so far
    exc,           \* the exception that ended the run or call, None if none
    call,          \* the function called last
    pc             \* where the run is

vars == <<packages, idx, workout_type, data, training, info, result, out,
          exc, call, pc>>

\* ------------------------------------------------------------- inputs
\* Longest driver list and longest parameter list explored.
MaxPackages == 3

MaxArgs == 6

\* The list packages of the __main__ block.
packages_main ==
    << <<"SWM", <<PyInt(720), PyInt(1), PyInt(80), PyInt(25), PyInt(40)>>>>,
       <<"RUN", <<PyInt(15000), PyInt(1), PyInt(75)>>>>,
       <<"WLK", <<PyInt(9000), PyInt(1), PyInt(75), PyInt(180)>>>> >>

\* Entries a driver list is drawn from: those of the program, and entries
\* with an unknown code, a wrong parameter count, a zero duration and a
\* zero height.
DriverEntries ==
    {packages_main[i] : i \in 1..3}
    \cup { <<"XYZ", <<PyInt(15000), PyInt(1), PyInt(75)>>>>,
           <<"RUN", <<PyInt(15000), PyInt(1), PyInt(75), PyInt(180)>>>>,
           <<"RUN", <<PyInt(15000), PyInt(0), PyInt(75)>>>>,
           <<"SWM", <<PyInt(720), PyInt(0), PyInt(80), PyInt(25), PyInt(40)>>>>,
           <<"WLK", <<PyInt(9000), PyInt(1), PyInt(75), PyInt(0)>>>> }

RECURSIVE ListsOver(_, _)
\* The lists of length n over the set S.
ListsOver(S, n) ==
    IF n = 0 THEN {<<>>}
    ELSE {Append(l, e) : l \in ListsOver(S, n - 1), e \in S}

\* Codes a direct call passes.
Codes == {"SWM", "RUN", "WLK", "XYZ", "swm"}

\* Values a direct call passes at position i of the parameter list.
ArgValues(i) ==
    CASE i = 1 -> {PyInt(-1), PyInt(0), PyInt(720), PyInt(15000)}
      [] i = 2 -> {PyInt(0), PyInt(1), PyFloat(5, 10)}
      [] i = 3 -> {PyInt(75), PyInt(80)}
      [] i = 4 -> {PyInt(-25), PyInt(0), PyInt(25), PyInt(180)}
      [] i = 5 -> {PyInt(0), PyInt(40)}
      [] OTHER -> {PyInt(1)}

RECURSIVE ArgLists(_)
\* The parameter lists of length n.
ArgLists(n) ==
    IF n = 0 THEN {<<>>}
    ELSE {Append(l, v) : l \in ArgLists(n - 1), v \in ArgValues(n)}

\* ------------------------------------------------------- driver loop
Init ==
    /\ packages \in UNION {ListsOver(DriverEntries, n) : n \in 0..MaxPackages}
    /\ idx = 1
    /\ workout_type = ""
    /\ data = <<>>
    /\ training = None
    /\ info = None
    /\ result = None
    /\ out = <<>>
    /\ exc = None
    /\ call = ""
    /\ pc = "loop"

\* for workout_type, data in packages: training = read_package(...).  An
\* exception is not handled anywhere: it ends the program.
ReadPackage ==
    /\ pc = "loop"
    /\ idx <= Len(packages)
    /\ \E r \in {read_package(packages[idx][1], packages[idx][2])} :
           /\ workout_type' = packages[idx][1]
           /\ data' = packages[idx][2]
           /\ call' = "read_package"
           /\ training' = IF IsExc(r) THEN training ELSE r
           /\ exc' = IF IsExc(r) THEN r ELSE exc
           /\ pc' = IF IsExc(r) THEN "crashed" ELSE "main"
    /\ UNCHANGED <<packages, idx, info, result, out>>

\* main(training): info = training.show_training_info();
\* print(info.get_message()); then the loop moves to the next entry.
Main ==
    /\ pc = "main"
    /\ \E i \in {show_training_info(training)} :
       \E m \in {IF IsExc(i) THEN i ELSE get_message(i)} :
           /\ call' = "main"
           /\ info' = IF IsExc(i) THEN info ELSE i
           /\ exc' = IF IsExc(m) THEN m ELSE exc
           /\ out' = IF IsExc(m) THEN out ELSE Append(out, m.text)
           /\ idx' = IF IsExc(m) THEN idx ELSE idx + 1
           /\ pc' = IF IsExc(m) THEN "crashed" ELSE "loop"
    /\ UNCHANGED <<packages, workout_type, data, training, result>>

\* The list is exhausted: the program ends.
Exit ==
    /\ pc = "loop"
    /\ idx > Len(packages)
    /\ pc' = "done"
    /\ UNCHANGED <<packages, idx, workout_type, data, training, info, result,
                   out, exc, call>>

Next == ReadPackage \/ Main \/ Exit

Spec == Init /\ [][Next]_vars

\* ------------------------------------------------------ direct calls
\* A caller of the module's functions and methods: it builds one record,
\* by read_package or by a constructor, and calls the record's methods.
InitCalls ==
    /\ packages = <<>>
    /\ idx = 1
    /\ workout_type = ""
    /\ data = <<>>
    /\ training = None
    /\ info = None
    /\ result = None
    /\ out = <<>>
    /\ exc = None
    /\ call = ""
    /\ pc = "idle"

CallReadPackage ==
    /\ pc = "idle"
    /\ \E c \in Codes, n \in 0..MaxArgs : \E d \in ArgLists(n) :
          \E r \in {read_package(c, d)} :
              /\ workout_type' = c
              /\ data' = d
              /\ call' = "read_package"
              /\ training' = IF IsExc(r) THEN training ELSE r
              /\ exc' = IF IsExc(r) THEN r ELSE exc
              /\ pc' = IF IsExc(r) THEN "raised" ELSE "built"
    /\ UNCHANGED <<packages, idx, info, result, out>>

\* Training(*d), Running(*d), SportsWalking(*d) or Swimming(*d).
CallConstructor ==
    /\ pc = "idle"
    /\ \E cls \in Classes, n \in 0..MaxArgs : \E d \in ArgLists(n) :
          \E r \in {Construct(cls, d)} :
              /\ data' = d
              /\ call' = cls
              /\ training' = IF IsExc(r) THEN training ELSE r
              /\ exc' = IF IsExc(r) THEN r ELSE exc
              /\ pc' = IF IsExc(r) THEN "raised" ELSE "built"
    /\ UNCHANGED <<packages, idx, workout_type, info, result, out>>

\* training.get_distance(), .get_mean_speed() or .get_spent_calories().
CallGetter ==
    /\ pc = "built"
    /\ \E m \in {"get_distance", "get_mean_speed", "get_spent_calories"} :
          \E r \in {CASE m = "get_distance" -> get_distance(training)
                       [] m = "get_mean_speed" -> get_mean_speed(training)
                       [] OTHER -> get_spent_calories(training)} :
              /\ call' = m
              /\ result' = IF IsExc(r) THEN result ELSE r
              /\ exc' = IF IsExc(r) THEN r ELSE exc
              /\ pc' = IF IsExc(r) THEN "raised" ELSE "returned"
    /\ UNCHANGED <<packages, idx, workout_type, data, training, info, out>>

\* info = training.show_training_info().
CallShowTrainingInfo ==
    /\ pc = "built"
    /\ \E r \in {show_training_info(training)} :
           /\ call' = "show_training_info"
           /\ info' = IF IsExc(r) THEN info ELSE r
           /\ exc' = IF IsExc(r) THEN r ELSE exc
           /\ pc' = IF IsExc(r) THEN "raised" ELSE "info"
    /\ UNCHANGED <<packages, idx, workout_type, data, training, result, out>>

\* print(info.get_message()).
CallGetMessage ==
    /\ pc = "info"
    /\ \E r \in {get_message(info)} :
           /\ call' = "get_message"
           /\ out' = IF IsExc(r) THEN out ELSE Append(out, r.text)
           /\ exc' = IF IsExc(r) THEN r ELSE exc
           /\ pc' = IF IsExc(r) THEN "raised" ELSE "printed"
    /\ UNCHANGED <<packages, idx, workout_type, data, training, info, result>>

NextCalls ==
    \/ CallReadPackage
    \/ CallConstructor
    \/ CallGetter
    \/ CallShowTrainingInfo
    \/ CallGetMessage

SpecCalls == InitCalls /\ [][NextCalls]_vars

\* ------------------------------------------------------------- claims
\* The record held was built by read_package from a known code.
BuiltByReadPackage ==
    IsObject(training) /\ workout_type \in {"SWM", "RUN", "WLK"}

\* C1: read_package with a known code and a parameter list of the matching
\* length returns a record of the mapped variant (SWM -> Swimming, RUN ->
\* Running, WLK -> SportsWalking) whose fields are the parameters in the
\* stated order, and the report built from it carries the variant's name.
C1_DispatchBindsPositionally ==
    /\ (/\ call = "read_package"
        /\ \/ workout_type = "SWM" /\ Len(data) = 5
           \/ workout_type = "RUN" /\ Len(data) = 3
           \/ workout_type = "WLK" /\ Len(data) = 4)
       => pc = "built" /\ IsObject(training)
    /\ BuiltByReadPackage =>
         /\ training.action = data[1]
         /\ training.duration = data[2]
         /\ training.weight = data[3]
         /\ workout_type = "SWM" =>
              /\ training.cls = "Swimming"
              /\ training.length_pool = data[4]
              /\ training.count_pool = data[5]
              /\ training.height = Absent
         /\ workout_type = "RUN" =>
              /\ training.cls = "Running"
              /\ training.height = Absent
              /\ training.length_pool = Absent
              /\ training.count_pool = Absent
         /\ workout_type = "WLK" =>
              /\ training.cls = "SportsWalking"
              /\ training.height = data[4]
              /\ training.length_pool = Absent
              /\ training.count_pool = Absent
         /\ IsInfo(info) =>
              info.training_type =
                  CASE workout_type = "SWM" -> "Swimming"
                    [] workout_type = "RUN" -> "Running"
                    [] OTHER -> "SportsWalking"

C1_Witness ==
    /\ BuiltByReadPackage
    /\ workout_type = "WLK"
    /\ pc = "info"
    /\ info.training_type = "SportsWalking"
    /\ training.duration = PyFloat(5, 10)
    /\ training.weight = PyInt(80)
    /\ training.height = PyInt(180)

\* C2: read_package with a code other than "SWM", "RUN", "WLK" fails, for
\* any parameter list, with the error of the unknown code (KeyError, the
\* failed lookup) naming that code; it returns no record and builds no
\* default variant.
C2_UnknownCodeFails ==
    (call = "read_package" /\ workout_type \notin {"SWM", "RUN", "WLK"})
    => /\ pc = "raised"
       /\ exc.exc = "KeyError"
       /\ exc.arg = workout_type
       /\ training = None

C2_Witness ==
    /\ call = "read_package"
    /\ workout_type = "XYZ"
    /\ Len(data) = 3
    /\ pc = "raised"
    /\ exc.arg = "XYZ"

\* C3: for a known code read_package succeeds if and only if the parameter
\* list has the variant's arity (RUN 3, WLK 4, SWM 5); with fewer or more
\* parameters it fails with the error of a wrong parameter count
\* (TypeError, raised by the call of the constructor) and returns no record.
C3_ArityDecidesSuccess ==
    workout_type \in {"SWM", "RUN", "WLK"}
    => LET arity == CASE workout_type = "RUN" -> 3
                      [] workout_type = "WLK" -> 4
                      [] OTHER -> 5
       IN  /\ Len(data) = arity <=> IsObject(training)
           /\ Len(data) # arity =>
                /\ pc = "raised"
                /\ call = "read_package"
                /\ exc.exc = "TypeError"
                /\ training = None

C3_Witness ==
    /\ call = "read_package"
    /\ workout_type = "RUN"
    /\ Len(data) = 4
    /\ pc = "raised"
    /\ exc.exc = "TypeError"

\* The driver has just printed the line of the entry (code, params).
Printed(code, params) ==
    /\ pc = "loop"
    /\ call = "main"
    /\ workout_type = code
    /\ data = params
    /\ out # <<>>

\* C4 as stated: the line printed for ("SWM", [720, 1, 80, 25, 40]) shows
\* type Swimming, duration 1.000, distance 1.000 km, mean speed 1.000 km/h
\* and 336.000 kcal.
C4_Original ==
    Printed("SWM", <<PyInt(720), PyInt(1), PyInt(80), PyInt(25), PyInt(40)>>)
    => out[Len(out)] =
         "Tip trenirovki: Swimming; Dlitel'nost': 1.000 ch.; "
         \o "Distantsiya: 1.000 km; Sr. skorost': 1.000 km/ch; "
         \o "Potracheno kkal: 336.000."

\* C4 amended: the line printed for ("SWM", [720, 1, 80, 25, 40]) shows
\* type Swimming, duration 1.000, distance 0.994 km (720 * 1.38 / 1000,
\* the strokes times the stroke length, not the pool length times the
\* laps), mean speed 1.000 km/h and 336.000 kcal, each with 3 decimals.
C4_SwimmingReport ==
    Printed("SWM", <<PyInt(720), PyInt(1), PyInt(80), PyInt(25), PyInt(40)>>)
    => /\ out[Len(out)] =
            "Tip trenirovki: Swimming; Dlitel'nost': 1.000 ch.; "
            \o "Distantsiya: 0.994 km; Sr. skorost': 1.000 km/ch; "
            \o "Potracheno kkal: 336.000."
       /\ NumEq(info.distance, PyFloat(9936, 10000))
       /\ NumEq(info.speed, PyInt(1))
       /\ NumEq(info.calories, PyInt(336))

C4_Witness ==
    /\ Printed("SWM", <<PyInt(720), PyInt(1), PyInt(80), PyInt(25), PyInt(40)>>)
    /\ info.training_type = "Swimming"
    /\ Len(out) = 2

\* C5 as stated: the line printed for ("RUN", [15000, 1, 75]) shows
\* distance 9.750 km, mean speed 9.750 km/h and 797.828 kcal.
C5_Original ==
    Printed("RUN", <<PyInt(15000), PyInt(1), PyInt(75)>>)
    => out[Len(out)] =
         "Tip trenirovki: Running; Dlitel'nost': 1.000 ch.; "
         \o "Distantsiya: 9.750 km; Sr. skorost': 9.750 km/ch; "
         \o "Potracheno kkal: 797.828."

\* C5 amended: the line printed for ("RUN", [15000, 1, 75]) shows distance
\* 9.750 km, mean speed 9.750 km/h and calories
\* (18 * 9.75 + 1.79) * 75 / 1000 * 1 * 60, which is 797.805.
C5_RunningReport ==
    Printed("RUN", <<PyInt(15000), PyInt(1), PyInt(75)>>)
    => /\ out[Len(out)] =
            "Tip trenirovki: Running; Dlitel'nost': 1.000 ch.; "
            \o "Distantsiya: 9.750 km; Sr. skorost': 9.750 km/ch; "
            \o "Potracheno kkal: 797.805."
       /\ NumEq(info.distance, PyFloat(975, 100))
       /\ NumEq(info.speed, PyFloat(975, 100))
       /\ NumEq(info.calories, PyFloat(797805, 1000))

C5_Witness ==
    /\ Printed("RUN", <<PyInt(15000), PyInt(1), PyInt(75)>>)
    /\ info.training_type = "Running"
    /\ Len(out) = 2

\* C6: the mean speed of a Swimming record depends only on length_pool,
\* count_pool and duration: every Swimming record that differs from it in
\* action and weight alone has the same mean speed, and the value is
\* length_pool * count_pool / 1000 / duration.
C6_SwimmingSpeedIgnoresAction ==
    (IsObject(training) /\ training.cls = "Swimming")
    => /\ \A a \in ArgValues(1), w \in ArgValues(3) :
            get_mean_speed([training EXCEPT !.action = a, !.weight = w])
                = get_mean_speed(training)
       /\ (call = "get_mean_speed" /\ pc = "returned") =>
            NumEq(Mul(Mul(result, training.duration), PyInt(1000)),
                  Mul(training.length_pool, training.count_pool))

C6_Witness ==
    /\ IsObject(training)
    /\ training.cls = "Swimming"
    /\ call = "get_mean_speed"
    /\ pc = "returned"
    /\ training.action = PyInt(0)
    /\ NumEq(result, PyInt(2))

\* The record held divides by zero when its report is built.
DividesByZero ==
    /\ IsObject(training)
    /\ \/ training.duration.n = <<>>
       \/ training.cls = "SportsWalking" /\ training.height.n = <<>>

\* C7: when a record with duration 0 (any variant) or a SportsWalking
\* record with height 0 reaches a division while its report is built, the
\* call ends in a descriptive invalid-input error: the raw division-by-zero
\* fault is caught and re-signalled, and no report is produced.
C7_DivisionByZeroResignalled ==
    (call = "show_training_info" /\ DividesByZero)
    => /\ pc = "raised"
       /\ exc.exc # "ZeroDivisionError"
       /\ info = None

\* The line printed for one entry, <<>> when the entry fails.
RECURSIVE ValidLines(_)
\* The lines of the valid entries of a list, in the list's order.
ValidLines(list) ==
    IF list = <<>> THEN <<>>
    ELSE LET t == read_package(Head(list)[1], Head(list)[2])
             i == IF IsExc(t) THEN t ELSE show_training_info(t)
             m == IF IsExc(i) THEN i ELSE get_message(i)
         IN  (IF IsExc(m) THEN <<>> ELSE <<m.text>>) \o ValidLines(Tail(list))

\* C8: an entry of the driver's list that fails (unknown code, wrong
\* parameter count, division by zero) does not keep the entries after it
\* from being processed: when the run has ended, the line of every valid
\* entry has been printed, in list order.
C8_InvalidEntryDoesNotStopBatch ==
    pc \in {"done", "crashed"} => out = ValidLines(packages)

\* C9: get_spent_calories on a base Training record, called directly or
\* through show_training_info, signals an unimplemented-operation error;
\* it returns no value and yields no report.
C9_BaseCaloriesUnimplemented ==
    (/\ IsObject(training)
     /\ training.cls = "Training"
     /\ training.duration.n # <<>>
     /\ call \in {"get_spent_calories", "show_training_info"})
    => /\ pc = "raised"
       /\ exc.exc = "NotImplementedError"
       /\ result = None
       /\ info = None

\* The inputs C10 calls valid: a variant with duration > 0, action >= 0
\* and, for Swimming, length_pool >= 0 and count_pool >= 0.
ValidInputs ==
    /\ IsObject(training)
    /\ training.cls \in {"Running", "SportsWalking", "Swimming"}
    /\ Positive(training.duration)
    /\ NonNegative(training.action)
    /\ training.cls = "Swimming" =>
         NonNegative(training.length_pool) /\ NonNegative(training.count_pool)

\* C10: for every record of a variant with valid inputs get_distance() >= 0
\* and get_mean_speed() >= 0, where get_distance() is
\* action * LEN_STEP / 1000 with LEN_STEP 0.65 for Running and
\* SportsWalking and 1.38 for Swimming.
C10_DistanceAndSpeedNonNegative ==
    ValidInputs
    => /\ call = "get_distance" =>
            /\ pc = "returned"
            /\ NonNegative(result)
            /\ NumEq(Mul(result, PyInt(1000)),
                     Mul(training.action,
                         IF training.cls = "Swimming" THEN PyFloat(138, 100)
                         ELSE PyFloat(65, 100)))
       /\ call = "get_mean_speed" => pc = "returned" /\ NonNegative(result)
       /\ IsInfo(info) =>
            NonNegative(info.distance) /\ NonNegative(info.speed)

C10_Witness ==
    /\ ValidInputs
    /\ training.cls = "Swimming"
    /\ training.action = PyInt(720)
    /\ call = "get_distance"
    /\ pc = "returned"
    /\ Positive(result)

====
